---------------------------- MODULE Spec2Model ----------------------------
(***************************************************************************)
(* Lifecycle of one VaaS backend as managed by hook/vaas/hook.go:          *)
(* RegisterBackend, the status poller watchTaskStatus, DeregisterBackend   *)
(* and the HandleEvent dispatcher.  The VaaS client (hook/vaas/client.go)  *)
(* is the environment: every call it answers is a nondeterministic choice  *)
(* of the outcomes its interface allows.                                   *)
(***************************************************************************)
EXTENDS Integers, Sequences, FiniteSets, TLC

(***************************************************************************)
(* Bounds and program constants                                            *)
(***************************************************************************)

\* number of distinct backend identifiers the control plane may hand out
NumBackendIDs == 2

\* timer := time.NewTimer(90 * time.Second), in periods of the one-second ticker
MaxWait == 90

\* ticker periods modelled after the deadline has passed
MaxOvershoot == 2

\* ticks the ticker may drop because its one-slot channel is still full
MaxDropped == 1

\* a nil *int
Nil == 0

BackendIDs == 1..NumBackendIDs

(***************************************************************************)
(* Errors.  An error is the sequence of the message parts that fmt.Errorf  *)
(* and errors.New put together, outermost prefix first; nil is the empty   *)
(* sequence.                                                               *)
(***************************************************************************)

NoError == <<>>

\* errors the collaborators hand back (opaque causes)
errDatacenter == <<"runenv.Datacenter failed">>
errGetDC == <<"client.GetDC failed">>
errFindDirectorID == <<"client.FindDirectorID failed">>
errAddBackend == <<"client.AddBackend failed">>
errDeleteBackend == <<"client.DeleteBackend failed">>
errTaskStatus == <<"client.TaskStatus failed">>

\* errors.New(msg)
New(msg) == <<msg>>

\* fmt.Errorf(prefix + "%s", e): a nil e is formatted, not dropped
Errorf(prefix, e) == <<prefix>> \o (IF e = NoError THEN <<"%!s(<nil>)">> ELSE e)

errNoPorts == New("Service has no ports available")
errTimedOut == New("VaaS registration timed out")
prefixRegister == "Could not register with VaaS director: "
prefixFailed == "Registration in VaaS failed: "

(***************************************************************************)
(* Task statuses and lifecycle events                                      *)
(***************************************************************************)

StatusPending == "PENDING"
StatusSuccess == "SUCCESS"
StatusFailure == "FAILURE"

AfterTaskHealthyEvent == "AfterTaskHealthyEvent"
BeforeTerminateEvent == "BeforeTerminateEvent"
OtherEvent == "OtherEvent"

\* what the code reads of a mesos.TaskInfo: the director label is set, the
\* number of ports, the vaas-queue label is "true"
TaskInfos == [director : BOOLEAN, ports : 0..1, async : BOOLEAN]

\* what the collaborators answer during one RegisterBackend call, up to the
\* first failure (no answer is drawn for a call that is not made):
\* addBackend = Nil is an error, otherwise the identifier put into backend.ID
Answers ==
    {a \in [datacenter : BOOLEAN, getDC : BOOLEAN, findDirectorID : BOOLEAN,
            addBackend : {Nil} \cup BackendIDs] :
        /\ ~a.datacenter => ~a.getDC
        /\ ~a.getDC => ~a.findDirectorID
        /\ ~a.findDirectorID => a.addBackend = Nil}

\* the answers of a call that asks the collaborators nothing
NoAnswers ==
    [datacenter |-> FALSE, getDC |-> FALSE, findDirectorID |-> FALSE,
     addBackend |-> Nil]

\* the answers drawn for one RegisterBackend call on taskInfo: none without a
\* director label (lines 38-41 return first), none of client.AddBackend
\* without a port (lines 64-66 return first)
AnswersFor(taskInfo) ==
    IF ~taskInfo.director THEN {NoAnswers}
    ELSE IF taskInfo.ports < 1 THEN {a \in Answers : a.addBackend = Nil}
    ELSE Answers

\* a TaskInfo without labels and ports
NoTaskInfo == [director |-> FALSE, ports |-> 0, async |-> FALSE]

\* hook.Event: its type and its TaskInfo
Events ==
    [type : {AfterTaskHealthyEvent, BeforeTerminateEvent, OtherEvent},
     taskInfo : TaskInfos]

\* one call on the Client interface: the operation, the backend identifier it
\* carries (AddBackend: the one it put into backend.ID) and the async flag
Call(op, id, async) == [op |-> op, id |-> id, async |-> async]

VARIABLES
    backendID,  \* Hook.backendID: Nil or the stored identifier
    call,       \* the HandleEvent call that is running or was the last to return
    before,     \* the call that returned before the current DeregisterBackend
                \* call (NoCall while another kind of call is the current one)
    watch,      \* the state of watchTaskStatus for that call
    weight,     \* the weight resolution of lines 68-80 on its own: its inputs
                \* and its result
    concurrent, \* the DeregisterBackend call that ran while the current
                \* RegisterBackend call was waiting (NoCall if none did)
    ledger      \* history: what an observer of the calls keeps account of
                \* (a specification chooses in its initial state what is kept)

vars == <<backendID, call, before, watch, weight, concurrent, ledger>>


(***************************************************************************)
(* RegisterBackend                                                         *)
(***************************************************************************)

\* a return from RegisterBackend that leaves the receiver as it is
Return(sh, calls, err) ==
    [backendID |-> sh, calls |-> calls, err |-> err, waiting |-> FALSE]

\* client.AddBackend(backend, async): on success backend.ID holds the identifier
AddBackend(answer, async) == Call("AddBackend", answer, async)

\* Resolve without the ports check of lines 64-66
ResolveIgnoresPorts(taskInfo, ans) ==
    IF ~ans.datacenter THEN [calls |-> <<>>, err |-> errDatacenter]
    ELSE IF ~ans.getDC THEN
        [calls |-> <<Call("GetDC", Nil, FALSE)>>, err |-> errGetDC]
    ELSE IF ~ans.findDirectorID THEN
        [calls |-> <<Call("GetDC", Nil, FALSE), Call("FindDirectorID", Nil, FALSE)>>,
         err |-> errFindDirectorID]
    ELSE
        [calls |-> <<Call("GetDC", Nil, FALSE), Call("FindDirectorID", Nil, FALSE)>>,
         err |-> NoError]

\* Resolve with the error of client.GetDC checked only after the director lookup
ResolveChecksLate(taskInfo, ans) ==
    IF ~ans.datacenter THEN [calls |-> <<>>, err |-> errDatacenter]
    ELSE IF ~ans.getDC THEN
        [calls |-> <<Call("GetDC", Nil, FALSE), Call("FindDirectorID", Nil, FALSE)>>,
         err |-> errGetDC]
    ELSE IF ~ans.findDirectorID THEN
        [calls |-> <<Call("GetDC", Nil, FALSE), Call("FindDirectorID", Nil, FALSE)>>,
         err |-> errFindDirectorID]
    ELSE IF taskInfo.ports < 1 THEN
        [calls |-> <<Call("GetDC", Nil, FALSE), Call("FindDirectorID", Nil, FALSE)>>,
         err |-> errNoPorts]
    ELSE
        [calls |-> <<Call("GetDC", Nil, FALSE), Call("FindDirectorID", Nil, FALSE)>>,
         err |-> NoError]

\* lines 45-66: the resolutions and the ports check, in the order of the code;
\* the result is the calls made and the error that stops the registration
Resolve(taskInfo, ans) ==
    IF ~ans.datacenter THEN [calls |-> <<>>, err |-> errDatacenter]
    ELSE IF ~ans.getDC THEN
        [calls |-> <<Call("GetDC", Nil, FALSE)>>, err |-> errGetDC]
    ELSE IF ~ans.findDirectorID THEN
        [calls |-> <<Call("GetDC", Nil, FALSE), Call("FindDirectorID", Nil, FALSE)>>,
         err |-> errFindDirectorID]
    ELSE IF taskInfo.ports < 1 THEN
        [calls |-> <<Call("GetDC", Nil, FALSE), Call("FindDirectorID", Nil, FALSE)>>,
         err |-> errNoPorts]
    ELSE
        [calls |-> <<Call("GetDC", Nil, FALSE), Call("FindDirectorID", Nil, FALSE)>>,
         err |-> NoError]

\* SubmitAsync with the identifier stored only once the wait has succeeded,
\* that is not at all before the wait
SubmitAsyncStoresLate(sh, calls, ans) ==
    IF ans.addBackend = Nil
    THEN Return(sh, Append(calls, AddBackend(Nil, TRUE)),
                Errorf(prefixRegister, errAddBackend))
    ELSE [backendID |-> sh,
          calls |-> Append(calls, AddBackend(ans.addBackend, TRUE)),
          err |-> NoError, waiting |-> TRUE]

\* SubmitAsync returning the error of client.AddBackend as it is
SubmitAsyncUnwrapped(sh, calls, ans) ==
    IF ans.addBackend = Nil
    THEN Return(sh, Append(calls, AddBackend(Nil, TRUE)), errAddBackend)
    ELSE [backendID |-> ans.addBackend,
          calls |-> Append(calls, AddBackend(ans.addBackend, TRUE)),
          err |-> NoError, waiting |-> TRUE]

\* lines 101-108: the asynchronous submission; backend.ID is stored before the wait
SubmitAsync(sh, calls, ans) ==
    IF ans.addBackend = Nil
    THEN Return(sh, Append(calls, AddBackend(Nil, TRUE)),
                Errorf(prefixRegister, errAddBackend))
    ELSE [backendID |-> ans.addBackend,
          calls |-> Append(calls, AddBackend(ans.addBackend, TRUE)),
          err |-> NoError, waiting |-> TRUE]

\* SubmitSync without line 123
SubmitSyncDropsID(sh, calls, ans) ==
    IF ans.addBackend = Nil
    THEN Return(sh, Append(calls, AddBackend(Nil, FALSE)), errAddBackend)
    ELSE [backendID |-> sh,
          calls |-> Append(calls, AddBackend(ans.addBackend, FALSE)),
          err |-> NoError, waiting |-> FALSE]

\* SubmitSync with line 123 moved before the error check of line 120
SubmitSyncStoresFirst(sh, calls, ans) ==
    [backendID |-> ans.addBackend,
     calls |-> Append(calls, AddBackend(ans.addBackend, FALSE)),
     err |-> IF ans.addBackend = Nil THEN errAddBackend ELSE NoError,
     waiting |-> FALSE]

\* lines 117-128: the synchronous submission
SubmitSync(sh, calls, ans) ==
    IF ans.addBackend = Nil
    THEN Return(sh, Append(calls, AddBackend(Nil, FALSE)), errAddBackend)
    ELSE [backendID |-> ans.addBackend,
          calls |-> Append(calls, AddBackend(ans.addBackend, FALSE)),
          err |-> NoError, waiting |-> FALSE]

\* RegisterBackend without the early return of lines 38-41
RegisterBackendNoSkip(sh, taskInfo, ans) ==
    LET r == Resolve(taskInfo, ans) IN
    IF r.err # NoError THEN Return(sh, r.calls, r.err)
    ELSE IF taskInfo.async THEN SubmitAsync(sh, r.calls, ans)
    ELSE SubmitSync(sh, r.calls, ans)

\* RegisterBackend clearing the identifier of the Hook whenever it returns
\* without having submitted
RegisterBackendForgets(sh, taskInfo, ans) ==
    IF ~taskInfo.director THEN Return(Nil, <<>>, NoError)
    ELSE LET r == Resolve(taskInfo, ans) IN
         IF r.err # NoError THEN Return(Nil, r.calls, r.err)
         ELSE IF taskInfo.async THEN SubmitAsync(Nil, r.calls, ans)
         ELSE SubmitSync(Nil, r.calls, ans)

\* lines 35-124: RegisterBackend up to its return or to the call of watchTaskStatus
RegisterBackend(sh, taskInfo, ans) ==
    IF ~taskInfo.director THEN Return(sh, <<>>, NoError)
    ELSE LET r == Resolve(taskInfo, ans) IN
         IF r.err # NoError THEN Return(sh, r.calls, r.err)
         ELSE IF taskInfo.async THEN SubmitAsync(sh, r.calls, ans)
         ELSE SubmitSync(sh, r.calls, ans)

\* the run-time panic of dereferencing a nil pointer
errNilDereference ==
    New("panic: runtime error: invalid memory address or nil pointer dereference")

\* lines 113-128: RegisterBackend once watchTaskStatus has returned err; sh is
\* what line 126 reads from sh.backendID, which it dereferences
RegisterAfterWatch(sh, err) ==
    IF err # NoError THEN Errorf(prefixRegister, err)
    ELSE IF sh = Nil THEN errNilDereference
    ELSE NoError

(***************************************************************************)
(* The initial weight, lines 68-80                                         *)
(***************************************************************************)

\* a *int: nil, or a pointer to val
NilWeight == [set |-> FALSE, val |-> 0]
Ptr(val) == [set |-> TRUE, val |-> val]

\* a string is the sequence of its characters
DigitValue ==
    [c \in {"0", "1", "2", "3", "4", "5", "6", "7", "8", "9"} |->
        CASE c = "0" -> 0 [] c = "1" -> 1 [] c = "2" -> 2 [] c = "3" -> 3
          [] c = "4" -> 4 [] c = "5" -> 5 [] c = "6" -> 6 [] c = "7" -> 7
          [] c = "8" -> 8 [] c = "9" -> 9]

RECURSIVE Magnitude(_)
\* the number a string of decimal digits spells
Magnitude(digits) ==
    IF digits = <<>> THEN 0
    ELSE 10 * Magnitude(SubSeq(digits, 1, Len(digits) - 1))
            + DigitValue[digits[Len(digits)]]

\* strconv.Atoi(str), line 78: an optional sign and at least one decimal
\* digit, anything else is an error (the strings here are too short to
\* overflow an int)
Atoi(str) ==
    LET signed == str # <<>> /\ str[1] \in {"+", "-"}
        digits == IF signed THEN Tail(str) ELSE str
    IN IF digits = <<>> \/ \E i \in DOMAIN digits : digits[i] \notin DOMAIN DigitValue
       THEN [err |-> TRUE, val |-> 0]
       ELSE [err |-> FALSE,
             val |-> IF signed /\ str[1] = "-" THEN 0 - Magnitude(digits)
                     ELSE Magnitude(digits)]

\* lines 68-80 with the environment override consulted first and the label
\* overriding it
InitialWeightLabelWins(label, env) ==
    LET override == Atoi(env)
        initialWeight == IF override.err THEN NilWeight ELSE Ptr(override.val)
    IN IF ~label.err THEN Ptr(label.weight) ELSE initialWeight

\* lines 68-80: label is what GetWeight returns, env the value of
\* VAAS_INITIAL_WEIGHT ("" when it is not set)
InitialWeight(label, env) ==
    LET initialWeight == IF label.err THEN NilWeight ELSE Ptr(label.weight)
        override == Atoi(env)
    IN IF ~override.err THEN Ptr(override.val) ELSE initialWeight

\* largest weight label and longest override drawn as inputs
MaxWeight == 2
MaxEnvLen == 2

\* what handyTaskInfo.GetWeight() returns: an error, or the weight of the label
LabelWeights ==
    {[err |-> TRUE, weight |-> 0]}
        \cup {[err |-> FALSE, weight |-> w] : w \in 0..MaxWeight}

EnvChars == {"+", "-", "0", "7", "x"}

\* the values of VAAS_INITIAL_WEIGHT
EnvValues == UNION {[1..n -> EnvChars] : n \in 0..MaxEnvLen}

\* no weight resolution is looked at
WeightIdle ==
    [pc |-> "idle", label |-> [err |-> TRUE, weight |-> 0], env |-> <<>>,
     out |-> NilWeight]

(***************************************************************************)
(* DeregisterBackend                                                       *)
(***************************************************************************)

\* DeregisterBackend without line 144
DeregisterBackendKeepsID(sh, deleteOK) ==
    IF sh # Nil THEN
        [backendID |-> sh, calls |-> <<Call("DeleteBackend", sh, FALSE)>>,
         err |-> IF deleteOK THEN NoError ELSE errDeleteBackend]
    ELSE [backendID |-> sh, calls |-> <<>>, err |-> NoError]

\* DeregisterBackend with line 144 moved before the call of line 137
DeregisterBackendForgetsFirst(sh, deleteOK) ==
    IF sh # Nil THEN
        [backendID |-> Nil, calls |-> <<Call("DeleteBackend", sh, FALSE)>>,
         err |-> IF deleteOK THEN NoError ELSE errDeleteBackend]
    ELSE [backendID |-> sh, calls |-> <<>>, err |-> NoError]

\* DeregisterBackend without the guard of line 133
DeregisterBackendUnguarded(sh, deleteOK) ==
    [backendID |-> IF deleteOK THEN Nil ELSE sh,
     calls |-> <<Call("DeleteBackend", sh, FALSE)>>,
     err |-> IF deleteOK THEN NoError ELSE errDeleteBackend]

\* lines 132-152; deleteOK is the answer of client.DeleteBackend
DeregisterBackend(sh, deleteOK) ==
    IF sh # Nil THEN
        IF ~deleteOK
        THEN [backendID |-> sh, calls |-> <<Call("DeleteBackend", sh, FALSE)>>,
              err |-> errDeleteBackend]
        ELSE [backendID |-> Nil, calls |-> <<Call("DeleteBackend", sh, FALSE)>>,
              err |-> NoError]
    ELSE [backendID |-> sh, calls |-> <<>>, err |-> NoError]

(***************************************************************************)
(* watchTaskStatus                                                         *)
(***************************************************************************)

FetchAnswers == {"error", StatusPending, StatusSuccess, StatusFailure}

\* no watchTaskStatus call has been made by the current HandleEvent call.
\* ticks: periods elapsed; ticker, timer: a value waits in ticker.C, timer.C;
\* fetches: client.TaskStatus calls started; answer: what the last one answered;
\* seen: all the answers so far; err: the named result err
WatchIdle ==
    [pc |-> "idle", ticks |-> 0, dropped |-> 0, ticker |-> FALSE, timer |-> FALSE,
     fetches |-> 0, task |-> StatusPending, answer |-> "none", seen |-> {},
     err |-> NoError]

\* lines 109-112 and 155-161: a pending task, both timing sources armed, the
\* loop at its select
WatchStart == [WatchIdle EXCEPT !.pc = "select"]

\* client.TaskStatus(task): an error leaves the task as it is, an answer sets
\* task.Status
TaskStatus(task, answer) ==
    IF answer = "error" THEN [err |-> errTaskStatus, task |-> task]
    ELSE [err |-> NoError, task |-> answer]

\* AfterTaskStatus without the case of line 178
AfterTaskStatusNoFailureCase(r) ==
    IF r.err # NoError THEN [continue |-> TRUE, err |-> r.err]
    ELSE IF r.task = StatusSuccess THEN [continue |-> FALSE, err |-> NoError]
    ELSE [continue |-> TRUE, err |-> r.err]

\* AfterTaskStatus with a return in the place of the continue of line 173
AfterTaskStatusReturnsFetchError(r) ==
    IF r.err # NoError THEN [continue |-> FALSE, err |-> r.err]
    ELSE IF r.task = StatusFailure
    THEN [continue |-> FALSE, err |-> Errorf(prefixFailed, r.err)]
    ELSE IF r.task = StatusSuccess THEN [continue |-> FALSE, err |-> NoError]
    ELSE [continue |-> TRUE, err |-> r.err]

\* lines 171-183, with r the outcome of line 168: go round the loop again, or
\* return err
AfterTaskStatus(r) ==
    IF r.err # NoError THEN [continue |-> TRUE, err |-> r.err]
    ELSE IF r.task = StatusFailure
    THEN [continue |-> FALSE, err |-> Errorf(prefixFailed, r.err)]
    ELSE IF r.task = StatusSuccess THEN [continue |-> FALSE, err |-> NoError]
    ELSE [continue |-> TRUE, err |-> r.err]

\* lines 163-166: the timer case of the select
AfterTimer == errTimedOut

Watching == watch.pc \in {"select", "fetch"}

(***************************************************************************)
(* The state machine                                                       *)
(***************************************************************************)

\* a HandleEvent call: its event, what the collaborators were set to answer
\* (ans: during RegisterBackend, deleteOK: client.DeleteBackend), the
\* identifier the Hook held when it began, the calls it made on the client
\* and the error it returned
NoCall ==
    [event |-> "none", taskInfo |-> NoTaskInfo,
     ans |-> NoAnswers, deleteOK |-> TRUE,
     pre |-> Nil, calls |-> <<>>, err |-> NoError, done |-> TRUE]

\* the identifier a RegisterBackend call submitted with success (the one
\* client.AddBackend put into backend.ID, lines 102 and 118), Nil if none
Submitted(c) ==
    IF /\ c.event = AfterTaskHealthyEvent
       /\ c.calls # <<>>
       /\ c.calls[Len(c.calls)].op = "AddBackend"
    THEN c.calls[Len(c.calls)].id
    ELSE Nil

\* the identifier a DeregisterBackend call deleted with success (line 137),
\* Nil if none
Deleted(c) ==
    IF c.event = BeforeTerminateEvent /\ c.calls # <<>> /\ c.err = NoError
    THEN c.calls[1].id
    ELSE Nil

\* nothing is kept account of
NoLedger == [track |-> {}, registered |-> Nil, live |-> {}]

\* the ledger once the call c has made a step:
\* registered is the identifier submitted by the most recent RegisterBackend
\* call that returned nil, live the identifiers submitted with success and not
\* deleted with success since
LedgerAfter(l, c) ==
    [l EXCEPT
        !.registered =
            IF "registered" \in l.track /\ c.done /\ c.err = NoError
                    /\ Submitted(c) # Nil
            THEN Submitted(c) ELSE @,
        !.live =
            IF "live" \notin l.track THEN @
            ELSE IF Submitted(c) # Nil THEN @ \cup {Submitted(c)}
            ELSE IF Deleted(c) # Nil THEN @ \ {Deleted(c)}
            ELSE @]

\* NewHook, lines 203-211
Init ==
    /\ backendID = Nil
    /\ call = NoCall
    /\ before = NoCall
    /\ watch = WatchIdle
    /\ weight = WeightIdle
    /\ concurrent = NoCall
    /\ ledger = NoLedger

\* HandleEvent, line 193: RegisterBackend up to its return or to the wait
Register(event) ==
    /\ call.done
    /\ \E ans \in AnswersFor(event.taskInfo) :
       LET r == RegisterBackend(backendID, event.taskInfo, ans) IN
        /\ backendID' = r.backendID
        /\ call' = [event |-> event.type, taskInfo |-> event.taskInfo,
                    ans |-> ans, deleteOK |-> TRUE, pre |-> backendID, calls |-> r.calls, err |-> r.err,
                    done |-> ~r.waiting]
        /\ watch' = IF r.waiting THEN WatchStart ELSE WatchIdle
    /\ before' = NoCall
    /\ concurrent' = NoCall
    /\ ledger' = LedgerAfter(ledger, call')
    /\ UNCHANGED weight

\* HandleEvent, line 195
Deregister(event) ==
    /\ call.done
    /\ \E deleteOK \in BOOLEAN :
       LET r == DeregisterBackend(backendID, deleteOK) IN
        /\ backendID' = r.backendID
        /\ call' = [event |-> event.type, taskInfo |-> event.taskInfo,
                    ans |-> NoAnswers, deleteOK |-> deleteOK, pre |-> backendID, calls |-> r.calls, err |-> r.err,
                    done |-> TRUE]
    /\ watch' = WatchIdle
    /\ before' = call
    /\ concurrent' = NoCall
    /\ ledger' = LedgerAfter(ledger, call')
    /\ UNCHANGED weight

\* HandleEvent, lines 196-198
Ignore(event) ==
    /\ call.done
    /\ call' = [event |-> event.type, taskInfo |-> event.taskInfo,
                ans |-> NoAnswers, deleteOK |-> TRUE, pre |-> backendID,
                calls |-> <<>>, err |-> NoError, done |-> TRUE]
    /\ watch' = WatchIdle
    /\ before' = NoCall
    /\ concurrent' = NoCall
    /\ UNCHANGED <<backendID, weight, ledger>>

\* HandleEvent with the default case of line 196 missing: an unsupported event
\* falls into the case above it
HandleEventNoDefault(event) ==
    \/ event.type = AfterTaskHealthyEvent /\ Register(event)
    \/ event.type # AfterTaskHealthyEvent /\ Deregister(event)

\* HandleEvent, lines 190-200
HandleEvent(event) ==
    \/ event.type = AfterTaskHealthyEvent /\ Register(event)
    \/ event.type = BeforeTerminateEvent /\ Deregister(event)
    \/ event.type = OtherEvent /\ Ignore(event)

\* the ticker (line 155) sends every period into a channel of one slot and
\* drops the tick when the slot is full; the ticks after the MaxWait-th come
\* after the timer
TickerFire ==
    /\ Watching
    /\ watch.ticks < MaxWait + MaxOvershoot
    /\ watch.ticks < MaxWait \/ watch.timer
    /\ watch.ticker => watch.dropped < MaxDropped
    /\ watch' = [watch EXCEPT !.ticks = @ + 1, !.ticker = TRUE,
                              !.dropped = IF watch.ticker THEN @ + 1 ELSE @]
    /\ UNCHANGED <<backendID, call, before, weight, concurrent, ledger>>

\* the timer (line 158) sends once, MaxWait periods after the start
TimerFire ==
    /\ Watching
    /\ ~watch.timer
    /\ watch.ticks = MaxWait
    /\ watch' = [watch EXCEPT !.timer = TRUE]
    /\ UNCHANGED <<backendID, call, before, weight, concurrent, ledger>>

\* what line 126 may read from sh.backendID: nothing orders the read after the
\* write of a DeregisterBackend call that ran during the wait, so it sees that
\* write or the one of line 107
Line126Reads ==
    {backendID} \cup (IF concurrent = NoCall THEN {} ELSE {Submitted(call)})

\* RegisterBackend comes back from watchTaskStatus (line 113) with err and runs
\* to its end: it returns, or it panics at line 126 and returns nothing
AfterWatch(err) ==
    /\ \E sh \in Line126Reads :
        LET e == RegisterAfterWatch(sh, err) IN
        call' = [call EXCEPT !.err = e, !.done = (e # errNilDereference)]
    /\ ledger' = LedgerAfter(ledger, call')
    /\ UNCHANGED <<backendID, before, weight, concurrent>>

\* watchTaskStatus returns err to RegisterBackend
WatchReturn(err) ==
    /\ watch' = [watch EXCEPT !.pc = "done", !.err = err]
    /\ AfterWatch(err)

\* lines 162-166: the select takes the timer case
SelectTimer ==
    /\ watch.pc = "select"
    /\ watch.timer
    /\ WatchReturn(AfterTimer)

\* lines 167-168: the select takes the ticker case and calls client.TaskStatus
SelectTicker ==
    /\ watch.pc = "select"
    /\ watch.ticker
    /\ watch' = [watch EXCEPT !.pc = "fetch", !.ticker = FALSE, !.fetches = @ + 1]
    /\ UNCHANGED <<backendID, call, before, weight, concurrent, ledger>>

\* lines 168-184: client.TaskStatus returns
FetchReturn(answer) ==
    /\ watch.pc = "fetch"
    /\ LET r == TaskStatus(watch.task, answer)
           a == AfterTaskStatus(r)
       IN IF a.continue
          THEN /\ watch' = [watch EXCEPT !.pc = "select", !.task = r.task,
                                         !.err = a.err, !.answer = answer,
                                         !.seen = @ \cup {answer}]
               /\ UNCHANGED <<backendID, call, before, weight, concurrent, ledger>>
          ELSE /\ watch' = [watch EXCEPT !.pc = "done", !.task = r.task,
                                         !.err = a.err, !.answer = answer,
                                         !.seen = @ \cup {answer}]
               /\ AfterWatch(a.err)

Next ==
    \/ \E event \in Events : HandleEvent(event)
    \/ TickerFire
    \/ TimerFire
    \/ SelectTimer
    \/ SelectTicker
    \/ \E answer \in FetchAnswers : FetchReturn(answer)

Spec == Init /\ [][Next]_vars

\* The serialized calls with an account kept of the identifier of the most
\* recent RegisterBackend call that returned nil.
RegisteredInit ==
    /\ backendID = Nil
    /\ call = NoCall
    /\ before = NoCall
    /\ watch = WatchIdle
    /\ weight = WeightIdle
    /\ concurrent = NoCall
    /\ ledger = [NoLedger EXCEPT !.track = {"registered"}]

RegisteredSpec == RegisteredInit /\ [][Next]_vars

\* The serialized calls with an account kept of the backends submitted and not
\* deleted.
LiveInit ==
    /\ backendID = Nil
    /\ call = NoCall
    /\ before = NoCall
    /\ watch = WatchIdle
    /\ weight = WeightIdle
    /\ concurrent = NoCall
    /\ ledger = [NoLedger EXCEPT !.track = {"live"}]

LiveSpec == LiveInit /\ [][Next]_vars

\* what line 133 may read from sh.backendID in a DeregisterBackend call that
\* runs during the wait of a RegisterBackend call: nothing orders the read
\* after the write of line 107, so it sees that write or what was there before
Line133Reads == {backendID, call.pre}

\* HandleEvent, line 195, called once while a RegisterBackend call waits in
\* watchTaskStatus (taken as one step: its DeleteBackend call returns before the
\* wait goes on)
ConcurrentDeregister ==
    /\ ~call.done
    /\ Watching
    /\ concurrent = NoCall
    /\ \E deleteOK \in BOOLEAN, sh \in Line133Reads :
       LET r == DeregisterBackend(sh, deleteOK) IN
        /\ backendID' = IF r.backendID = sh THEN backendID ELSE r.backendID
        /\ concurrent' = [event |-> BeforeTerminateEvent, taskInfo |-> call.taskInfo,
                          ans |-> NoAnswers, deleteOK |-> deleteOK, pre |-> sh,
                          calls |-> r.calls, err |-> r.err, done |-> TRUE]
    /\ UNCHANGED <<call, before, watch, weight, ledger>>

ConcNext ==
    \/ Next
    \/ ConcurrentDeregister

\* One DeregisterBackend call may run while a RegisterBackend call waits.
ConcSpec == Init /\ [][ConcNext]_vars

\* The weight resolution on its own: lines 68-80 are a function of what
\* GetWeight returns and of the override, whose result goes into
\* backend.Weight (line 94).
WeightInit ==
    /\ backendID = Nil
    /\ call = NoCall
    /\ before = NoCall
    /\ watch = WatchIdle
    /\ \E label \in LabelWeights, env \in EnvValues :
          weight = [pc |-> "start", label |-> label, env |-> env,
                    out |-> NilWeight]
    /\ concurrent = NoCall
    /\ ledger = NoLedger

ResolveWeight ==
    /\ weight.pc = "start"
    /\ weight' = [weight EXCEPT !.pc = "done",
                                !.out = InitialWeight(weight.label, weight.env)]
    /\ UNCHANGED <<backendID, call, before, watch, concurrent, ledger>>

WeightNext == ResolveWeight

WeightSpec == WeightInit /\ [][WeightNext]_vars

\* both timing sources fire, every client.TaskStatus call returns, a select with
\* a ready case proceeds and its pseudo-random choice among the ready cases
\* does not pass over the timer for ever
Fairness ==
    /\ WF_vars(TickerFire)
    /\ WF_vars(TimerFire)
    /\ WF_vars(\E answer \in FetchAnswers : FetchReturn(answer))
    /\ WF_vars(SelectTimer \/ SelectTicker)
    /\ SF_vars(SelectTimer)

FairSpec == Spec /\ Fairness

(***************************************************************************)
(* Properties                                                              *)
(***************************************************************************)

DeleteCalls(calls) ==
    Cardinality({i \in DOMAIN calls : calls[i].op = "DeleteBackend"})

IsDeregister(c) == c.event = BeforeTerminateEvent
IsRegister(c) == c.event = AfterTaskHealthyEvent

\* the identifier a RegisterBackend call submitted asynchronously, Nil if none
AsyncSubmitted(c) ==
    IF /\ IsRegister(c)
       /\ c.calls # <<>>
       /\ c.calls[Len(c.calls)].op = "AddBackend"
       /\ c.calls[Len(c.calls)].async
    THEN c.calls[Len(c.calls)].id
    ELSE Nil

\* the first of two DeregisterBackend calls in succession found an identifier
\* and its DeleteBackend call succeeded
SecondAfterSuccessfulDelete ==
    /\ IsDeregister(call)
    /\ IsDeregister(before)
    /\ before.pre # Nil
    /\ before.err = NoError

\* C1: when DeregisterBackend is called twice in succession on a Hook that holds
\* an identifier and the first DeleteBackend call succeeds, the two calls issue
\* exactly one DeleteBackend call, the Hook holds no identifier after the first
\* call and the second call returns no error.
C1_DeregisterIdempotent ==
    SecondAfterSuccessfulDelete =>
        /\ DeleteCalls(before.calls \o call.calls) = 1
        /\ before.calls = <<Call("DeleteBackend", before.pre, FALSE)>>
        /\ call.pre = Nil
        /\ call.err = NoError
        /\ backendID = Nil

C1_Witness == SecondAfterSuccessfulDelete

\* the first of two DeregisterBackend calls in succession found an identifier
\* and its DeleteBackend call failed
SecondAfterFailedDelete ==
    /\ IsDeregister(call)
    /\ IsDeregister(before)
    /\ before.pre # Nil
    /\ before.calls = <<Call("DeleteBackend", before.pre, FALSE)>>
    /\ before.err # NoError

\* C2: a DeregisterBackend call whose DeleteBackend call fails returns the error
\* and leaves the identifier in the Hook, and the DeregisterBackend call that
\* follows it issues DeleteBackend again for the same identifier.
C2_FailedDeleteKeepsID ==
    /\ (IsDeregister(call) /\ call.pre # Nil /\ call.err # NoError) =>
            /\ call.err = errDeleteBackend
            /\ backendID = call.pre
    /\ SecondAfterFailedDelete =>
            /\ call.pre = before.pre
            /\ call.calls = <<Call("DeleteBackend", before.pre, FALSE)>>

C2_Witness == SecondAfterFailedDelete

\* a DeregisterBackend call on a Hook that holds no identifier
DeregisterWithoutID == IsDeregister(call) /\ call.pre = Nil

\* C9: a DeregisterBackend call on a Hook that holds no identifier returns no
\* error, makes no call on the client and leaves the Hook without identifier.
C9_DeregisterNoop ==
    DeregisterWithoutID =>
        /\ call.err = NoError
        /\ call.calls = <<>>
        /\ watch.fetches = 0
        /\ backendID = Nil

C9_Witness == DeregisterWithoutID /\ before = NoCall

\* a RegisterBackend call for a task without director label
RegisterWithoutDirector == IsRegister(call) /\ ~call.taskInfo.director

\* C10: a RegisterBackend call for a task without director label returns no
\* error, makes no call on the client (no resolution, no submission, no status
\* fetch) and leaves the identifier of the Hook as it was.
C10_NoDirectorSkips ==
    RegisterWithoutDirector =>
        /\ call.done
        /\ call.err = NoError
        /\ call.calls = <<>>
        /\ watch = WatchIdle
        /\ backendID = call.pre

C10_Witness == RegisterWithoutDirector /\ call.pre # Nil /\ call.taskInfo.async

\* a RegisterBackend call that submitted asynchronously and is waiting in
\* watchTaskStatus
RegisterWaiting == IsRegister(call) /\ ~call.done

\* a RegisterBackend call whose watchTaskStatus call returned an error: the
\* task failed, or the wait timed out
FailedWait(c) ==
    /\ IsRegister(c)
    /\ c.done
    /\ AsyncSubmitted(c) # Nil
    /\ c.err \in {Errorf(prefixRegister, Errorf(prefixFailed, NoError)),
                  Errorf(prefixRegister, errTimedOut)}

\* C3: on the asynchronous path the identifier of the submitted backend is in
\* the Hook while watchTaskStatus runs; when the task fails or the wait times
\* out RegisterBackend returns an error and the Hook still holds the
\* identifier, and the DeregisterBackend call that follows issues DeleteBackend
\* for it.
C3_AsyncFailureKeepsID ==
    /\ RegisterWaiting =>
            /\ Watching
            /\ AsyncSubmitted(call) # Nil
            /\ backendID = AsyncSubmitted(call)
    /\ (IsRegister(call) /\ watch.pc = "done" /\ watch.err # NoError) =>
            /\ FailedWait(call)
            /\ backendID = AsyncSubmitted(call)
    /\ (IsDeregister(call) /\ FailedWait(before)) =>
            call.calls = <<Call("DeleteBackend", AsyncSubmitted(before), FALSE)>>

C3_Witness ==
    /\ IsDeregister(call)
    /\ FailedWait(before)
    /\ before.err = Errorf(prefixRegister, errTimedOut)
    /\ call.pre # Nil

Terminal == {StatusSuccess, StatusFailure}

\* C4: watchTaskStatus ends on the first TaskStatus call that returns without
\* error and with a terminal status: SUCCESS makes it return nil, FAILURE makes
\* it return an error, and after PENDING the loop goes on (it ends only by a
\* later answer or by the timer).
C4_ResolvesOnTerminalFetch ==
    /\ watch.answer = StatusSuccess =>
            /\ watch.pc = "done"
            /\ watch.err = NoError
            /\ call.done /\ call.err = NoError
    /\ watch.answer = StatusFailure =>
            /\ watch.pc = "done"
            /\ watch.err = Errorf(prefixFailed, NoError)
            /\ call.done /\ call.err = Errorf(prefixRegister, watch.err)
    /\ watch.answer = StatusPending =>
            \/ Watching
            \/ watch.pc = "done" /\ watch.err = errTimedOut
    /\ Watching => watch.seen \cap Terminal = {}

\* PENDING, PENDING, SUCCESS before the deadline: no error
C4_Witness ==
    /\ watch.pc = "done"
    /\ watch.fetches = 3
    /\ watch.seen = {StatusPending, StatusSuccess}
    /\ ~watch.timer
    /\ call.err = NoError

\* the error of client.TaskStatus is part of the error e
CarriesFetchError(e) == \E i \in DOMAIN e : e[i] = errTaskStatus[1]

\* C6: a TaskStatus call that returns an error does not end watchTaskStatus and
\* its error is never what watchTaskStatus or RegisterBackend returns: the loop
\* goes on, and when every TaskStatus call fails the outcome is the timeout.
C6_FetchErrorIsTransient ==
    /\ watch.answer = "error" =>
            \/ Watching
            \/ watch.pc = "done" /\ watch.err = errTimedOut
    /\ watch.pc = "done" => ~CarriesFetchError(watch.err)
    /\ call.done => ~CarriesFetchError(call.err)
    /\ (watch.pc = "done" /\ watch.seen = {"error"}) =>
            /\ watch.err = errTimedOut
            /\ call.err = Errorf(prefixRegister, errTimedOut)

C6_Witness ==
    /\ watch.pc = "done"
    /\ watch.seen = {"error"}
    /\ watch.fetches = MaxWait
    /\ watch.err = errTimedOut

\* C5: when the timer has fired before any TaskStatus call returned SUCCESS or
\* FAILURE, watchTaskStatus returns the timeout error.
C5_DeadlineDecides ==
    (watch.pc = "done" /\ watch.timer) => watch.err = errTimedOut

\* C7: once the timer has fired watchTaskStatus starts no TaskStatus call, and
\* with a TaskStatus call in flight its next step is the return of the
\* timeout, not the end of that call.
C7_NoFetchAfterDeadline ==
    [][/\ (watch.timer /\ watch.pc = "select") => watch'.pc # "fetch"
       /\ (watch.timer /\ watch.pc = "fetch" /\ watch'.pc # "fetch") =>
            (watch'.pc = "done" /\ watch'.err = errTimedOut)]_vars

\* C8: every watchTaskStatus call returns, and it makes at most MaxWait
\* TaskStatus calls.
C8_ReturnsWithinMaxWaitFetches ==
    /\ [](Watching => <>(watch.pc = "done"))
    /\ [](watch.fetches <= MaxWait)

\* the calls of c on the operation op
CallsOf(c, op) == {i \in DOMAIN c.calls : c.calls[i].op = op}

\* both resolutions of a RegisterBackend call succeed
Resolved(c) ==
    /\ IsRegister(c)
    /\ c.taskInfo.director
    /\ c.ans.datacenter /\ c.ans.getDC /\ c.ans.findDirectorID

\* a RegisterBackend call for a task with a director label and no port
RegisterWithoutPorts ==
    IsRegister(call) /\ call.taskInfo.director /\ call.taskInfo.ports = 0

\* C11: a RegisterBackend call for a task without ports never calls AddBackend,
\* whatever the resolutions answer, and returns the "no ports" error when both
\* resolutions succeed.
C11_NoPortsNoSubmit ==
    RegisterWithoutPorts =>
        /\ CallsOf(call, "AddBackend") = {}
        /\ call.done
        /\ watch = WatchIdle
        /\ Resolved(call) => call.err = errNoPorts

C11_Witness == RegisterWithoutPorts /\ Resolved(call) /\ call.taskInfo.async

\* a RegisterBackend call that reaches the synchronous submission, which
\* succeeds
SyncSubmitted ==
    /\ Resolved(call)
    /\ call.taskInfo.ports >= 1
    /\ ~call.taskInfo.async
    /\ call.ans.addBackend # Nil

\* C12: on the synchronous path a successful AddBackend call puts the
\* identifier of the submitted backend into the Hook, RegisterBackend returns
\* no error, one AddBackend call is made and no TaskStatus call.
C12_SyncStoresID ==
    SyncSubmitted =>
        /\ call.done
        /\ call.err = NoError
        /\ backendID = call.ans.addBackend
        /\ Cardinality(CallsOf(call, "AddBackend")) = 1
        /\ call.calls[Len(call.calls)] = AddBackend(backendID, FALSE)
        /\ watch = WatchIdle

C12_Witness == SyncSubmitted /\ call.pre # Nil /\ call.pre # backendID

\* C13: HandleEvent runs RegisterBackend for AfterTaskHealthyEvent and
\* DeregisterBackend for BeforeTerminateEvent and returns what they return;
\* for any other event it returns nil, calls neither, makes no call on the
\* client and leaves the identifier of the Hook as it was.
C13_Dispatch ==
    /\ (IsRegister(call) /\ call.done) =>
            LET r == RegisterBackend(call.pre, call.taskInfo, call.ans) IN
            /\ call.calls = r.calls
            /\ backendID = r.backendID
            /\ call.err = IF r.waiting THEN RegisterAfterWatch(backendID, watch.err) ELSE r.err
            /\ r.waiting <=> watch.pc = "done"
    /\ IsDeregister(call) =>
            LET r == DeregisterBackend(call.pre, call.deleteOK) IN
            /\ call.calls = r.calls
            /\ backendID = r.backendID
            /\ call.err = r.err
            /\ watch = WatchIdle
    /\ call.event = OtherEvent =>
            /\ call.done
            /\ call.err = NoError
            /\ call.calls = <<>>
            /\ watch = WatchIdle
            /\ backendID = call.pre

C13_Witness == call.event = OtherEvent /\ call.pre # Nil /\ call.taskInfo.director

\* the error e is the error cause behind at least one prefix
Wrapped(e, cause) ==
    /\ Len(e) > Len(cause)
    /\ SubSeq(e, Len(e) - Len(cause) + 1, Len(e)) = cause

\* a RegisterBackend call whose AddBackend call fails
SubmitRejected(async) ==
    /\ Resolved(call)
    /\ call.taskInfo.ports >= 1
    /\ call.taskInfo.async = async
    /\ call.ans.addBackend = Nil

\* a DeregisterBackend call whose DeleteBackend call fails
DeleteRejected ==
    IsDeregister(call) /\ call.pre # Nil /\ ~call.deleteOK

\* C15 as claimed: the error of a rejected AddBackend call (on either path) or
\* DeleteBackend call reaches the caller behind a prefix.
C15_RejectionsWrapped ==
    /\ (SubmitRejected(TRUE) \/ SubmitRejected(FALSE)) =>
            Wrapped(call.err, errAddBackend)
    /\ DeleteRejected => Wrapped(call.err, errDeleteBackend)

\* C15 as amended: only the asynchronous path wraps the error of AddBackend,
\* with "Could not register with VaaS director: "; the synchronous path and
\* DeregisterBackend return the error of the client as it is.
C15_OnlyAsyncWrapped ==
    /\ SubmitRejected(TRUE) =>
            /\ call.err = Errorf(prefixRegister, errAddBackend)
            /\ Wrapped(call.err, errAddBackend)
    /\ SubmitRejected(FALSE) => call.err = errAddBackend
    /\ DeleteRejected => call.err = errDeleteBackend

C15_Witness == SubmitRejected(TRUE) /\ call.done

\* a RegisterBackend call, for a task with a director label, one of whose
\* resolutions fails
ResolutionFails ==
    IsRegister(call) /\ call.taskInfo.director /\ ~Resolved(call)

\* C16: when the datacenter resolution (runenv.Datacenter, client.GetDC) or
\* the director resolution fails, RegisterBackend returns that error as it
\* is and does not call AddBackend; after a failed datacenter resolution it
\* does not call FindDirectorID.
C16_ResolutionErrorsVerbatim ==
    ResolutionFails =>
        /\ call.done
        /\ CallsOf(call, "AddBackend") = {}
        /\ ~call.ans.datacenter =>
                call.err = errDatacenter /\ call.calls = <<>>
        /\ (call.ans.datacenter /\ ~call.ans.getDC) =>
                /\ call.err = errGetDC
                /\ CallsOf(call, "FindDirectorID") = {}
        /\ (call.ans.getDC /\ ~call.ans.findDirectorID) =>
                call.err = errFindDirectorID

C16_Witness == ResolutionFails /\ call.ans.datacenter /\ ~call.ans.getDC

\* a RegisterBackend call that returns an error before or at the submission
FailsBeforeWait ==
    \/ ResolutionFails
    \/ RegisterWithoutPorts
    \/ SubmitRejected(TRUE)
    \/ SubmitRejected(FALSE)

\* C18: a RegisterBackend call that returns an error before or at the
\* submission leaves the identifier of the Hook as it was before the call.
C18_EarlyErrorKeepsState ==
    FailsBeforeWait =>
        /\ call.done
        /\ call.err # NoError
        /\ backendID = call.pre

C18_Witness == SubmitRejected(FALSE) /\ call.pre # Nil

\* C17: the weight submitted is the override of the environment whenever that
\* parses as an integer, also when the label carries a weight; otherwise the
\* weight of the label when there is one; otherwise there is none.
C17_WeightPriority ==
    weight.pc = "done" =>
        LET override == Atoi(weight.env) IN
        /\ ~override.err => weight.out = Ptr(override.val)
        /\ (override.err /\ ~weight.label.err) =>
                weight.out = Ptr(weight.label.weight)
        /\ (override.err /\ weight.label.err) => weight.out = NilWeight

\* a label of 2 and an override of "-7": -7 is submitted
C17_Witness ==
    /\ weight.pc = "done"
    /\ weight.label = [err |-> FALSE, weight |-> 2]
    /\ weight.env = <<"-", "7">>
    /\ weight.out = Ptr(0 - 7)

\* C14: in every state the serialized calls leave, the Hook holds no identifier
\* or the identifier of the backend registered last with success, that of the
\* most recent RegisterBackend call that returned nil; it holds none at the
\* start and after every DeregisterBackend call that returned nil.
C14_LastRegistered ==
    call.done =>
        /\ backendID \in {Nil, ledger.registered}
        /\ (IsDeregister(call) /\ call.err = NoError) => backendID = Nil

\* C14 as the code has it: the Hook holds no identifier or the identifier
\* submitted last with success, whether the RegisterBackend call that submitted
\* it returned nil or failed in its wait. It holds none at the start; a call
\* that submits with success puts the submitted identifier there, a
\* DeregisterBackend call whose DeleteBackend call succeeds clears it, and
\* every other step leaves it as it is.
C14_LastSubmitted ==
    /\ backendID = Nil
    /\ [](/\ Submitted(call) # Nil => backendID = Submitted(call)
          /\ (IsDeregister(call) /\ call.err = NoError) => backendID = Nil)
    /\ [][(Submitted(call') = Nil /\ Deleted(call') = Nil)
                => backendID' = backendID]_vars

\* the wait of the first registration that submitted timed out: the Hook holds
\* the submitted identifier and no RegisterBackend call has returned nil with it
C14_Witness ==
    /\ "registered" \in ledger.track
    /\ FailedWait(call)
    /\ call.err = Errorf(prefixRegister, errTimedOut)
    /\ backendID = Submitted(call)
    /\ ledger.registered = Nil

\* RegisterBackend is past the submission and on its way to return nil: the
\* synchronous submission succeeded, or watchTaskStatus returned nil
ReachesSuccess(c) ==
    /\ Submitted(c) # Nil
    /\ \/ ~c.taskInfo.async
       \/ watch.pc = "done" /\ watch.err = NoError

\* C19: whenever RegisterBackend comes to its return of nil after a successful
\* submission, the Hook holds an identifier (the one line 126 dereferences is
\* there) and RegisterBackend does return nil, also when one DeregisterBackend
\* call ran while the asynchronous RegisterBackend call was waiting.
C19_IdentifierAtSuccess ==
    ReachesSuccess(call) =>
        /\ backendID # Nil
        /\ call.done
        /\ call.err = NoError

\* the backends this Hook submitted with success and has not deleted
Live == ledger.live

\* C20: in the serialized calls the backends submitted with success and not yet
\* deleted are at most one, the one whose identifier the Hook holds; after a
\* DeregisterBackend call that returned nil none is left, also when
\* RegisterBackend succeeded more than once before it.
C20_AtMostOneLive ==
    call.done =>
        /\ Cardinality(Live) <= 1
        /\ Live # {} => Live = {backendID}
        /\ (IsDeregister(call) /\ call.err = NoError) => Live = {}

====
